---------------------------- MODULE Spec2Model ----------------------------
(***************************************************************************)
(* State-machine model of the 3D CT annotator (src/src/annotator.py,       *)
(* class TkAnnotator): the canonical 3D box written by the five views, the *)
(* scroll shift, the slice derivation, the annotation logs with their      *)
(* duplicate check, and landmark/case navigation.                          *)
(*                                                                         *)
(* Numbers.  Box coordinates are Python floats (matplotlib xdata/ydata).   *)
(* They are modelled as integers counting "ticks": one voxel is Unit ticks,*)
(* the log format "%.6f" keeps Micro steps per voxel, and every micro-step *)
(* is Sub ticks, so a coordinate can carry digits that formatting drops.   *)
(***************************************************************************)
EXTENDS Integers, Sequences, FiniteSets, TLC

\* Decimal places kept by f"{v:.6f}": 10^6 steps per unit.
Micro == 1000000
\* Ticks per micro-step: the resolution of the modelled floats below 1e-6.
Sub == 4
Unit == Micro * Sub
Vox(n) == n * Unit

\* The landmark catalog, cut to its first entries: <<index text, name>> is
\* what lm_str.split('.')[0] and lm_str.split('. ')[1] give.
LANDMARKS == << <<"1", "Skull (cranial vault)">>, <<"2", "C2">> >>

\* file_list: the sorted case files, as <<case id, file name>>
\* (case_id = filename.split('_')[0]), and the shape of each case's volume.
FileList == << <<"001", "001_ct.nii.gz">>, <<"002", "002_ct.nii.gz">> >>
Shapes == << <<2, 2, 3>>, <<2, 3, 3>> >>

\* Names given at login (non-empty after strip).
Names == {"Jane", "Jane."}
\* The name given at the first login.
FirstName == "Jane"

None == <<>>

Views == {"AP", "Lat", "Axial", "Coronal", "Sagittal"}
MprViews == {"Axial", "Coronal", "Sagittal"}

VARIABLES
    case_index,            \* index into FileList (0-based, as in the code)
    current_landmark_idx,  \* index into LANDMARKS (0-based)
    box_3d,                \* None or <<x1, x2, y1, y2, z1, z2>> in ticks
    is_submitted,          \* the "saved" flag
    current_slices,        \* <<iz, iy, ix>>
    mpr,                   \* what the three MPR axes show: None or <<iz, iy, ix>>
    rs_mpr,                \* the MPR RectangleSelectors exist (refresh_mpr_views has run)
    hu_scale,              \* selected intensity threshold name
    stat_clicks,
    stat_help_count,
    files,                 \* file name -> [exists, rows]
    raw_data,              \* the loaded volume, raw_data[x][y][z]
    data,                  \* the thresholded volume the views are made from
    aip_ap,                \* None or the projection made by generate_aip
    resident_name,         \* the name given at login
    sel_ap,                \* prototype: None or the AP selection's extents
    sel_lat,               \* prototype: None or the Lateral selection's extents
    bbox_3d,               \* prototype: None or the box the last confirm made
    last                   \* the handler that ran last and what it did

vars == <<case_index, current_landmark_idx, box_3d, is_submitted, current_slices,
          mpr, rs_mpr, hu_scale, stat_clicks, stat_help_count, files,
          raw_data, data, aip_ap, resident_name, sel_ap, sel_lat, bbox_3d, last>>

\* self.resident_name.get().strip()
Resident == resident_name

---------------------------------------------------------------------------
(* Arithmetic helpers *)

Min2(a, b) == IF a <= b THEN a ELSE b
Max2(a, b) == IF a >= b THEN a ELSE b
Abs(a) == IF a >= 0 THEN a ELSE -a

\* Python int(): truncation toward zero of n/d (d > 0).
Trunc(n, d) == IF n >= 0 THEN n \div d ELSE -((-n) \div d)

\* self.data.shape of the current case, and one axis length in ticks.
Shape(ci) == Shapes[ci + 1]
AxisLen(ci, axis) == Vox(Shape(ci)[axis])

---------------------------------------------------------------------------
(* BoxModel *)

\* [0, nx, 0, ny, 0, nz]
FullExtent(shape) == <<0, Vox(shape[1]), 0, Vox(shape[2]), 0, Vox(shape[3])>>

\* The four values an on_select_* handler passes on: min/max of the two
\* corners' horizontal coordinates, then of their vertical coordinates.
RectValuesRaw(c1, c2) == <<c1[1], c2[1], c1[2], c2[2]>>
RectValues(c1, c2) ==
    <<Min2(c1[1], c2[1]), Max2(c1[1], c2[1]), Min2(c1[2], c2[2]), Max2(c1[2], c2[2])>>

\* dim_indices of each view (1-based here, 0-based in the code).
DimIndices(view) ==
    CASE view = "AP"       -> <<1, 2, 5, 6>>
      [] view = "Lat"      -> <<3, 4, 5, 6>>
      [] view = "Axial"    -> <<1, 2, 3, 4>>
      [] view = "Coronal"  -> <<1, 2, 5, 6>>
      [] view = "Sagittal" -> <<3, 4, 5, 6>>

\* update_box_from_view: the box after the write (full extent first when
\* there is none).
BoxAfterUpdateReset(box, shape, dims, values) ==
    [i \in 1..6 |->
        IF \E k \in 1..4 : dims[k] = i
        THEN values[CHOOSE k \in 1..4 : dims[k] = i]
        ELSE FullExtent(shape)[i]]
BoxAfterUpdateZero(box, shape, dims, values) ==
    LET base == IF box = None THEN <<0, 0, 0, 0, 0, 0>> ELSE box
    IN  [i \in 1..6 |->
            IF \E k \in 1..4 : dims[k] = i
            THEN values[CHOOSE k \in 1..4 : dims[k] = i]
            ELSE base[i]]
BoxAfterUpdate(box, shape, dims, values) ==
    LET base == IF box = None THEN FullExtent(shape) ELSE box
    IN  [i \in 1..6 |->
            IF \E k \in 1..4 : dims[k] = i
            THEN values[CHOOSE k \in 1..4 : dims[k] = i]
            ELSE base[i]]

\* visual_check: the slice indices <<iz, iy, ix>> of a box: the truncated
\* centre, clamped to [0, n-1] on each axis.
ClampIdxUpperOnly(i, n) == Min2(i, n - 1)
ClampIdx(i, n) == Max2(0, Min2(i, n - 1))
SlicesOf(box, shape) ==
    LET ix == Trunc(box[1] + box[2], 2 * Unit)
        iy == Trunc(box[3] + box[4], 2 * Unit)
        iz == Trunc(box[5] + box[6], 2 * Unit)
    IN  <<ClampIdx(iz, shape[3]), ClampIdx(iy, shape[2]), ClampIdx(ix, shape[1])>>

\* on_scroll: which box indices an MPR view shifts, and along which axis.
ShiftIndicesCoronalX(view) ==
    CASE view = "Axial"    -> <<5, 6>>
      [] view = "Coronal"  -> <<1, 2>>
      [] view = "Sagittal" -> <<1, 2>>
ShiftIndices(view) ==
    CASE view = "Axial"    -> <<5, 6>>
      [] view = "Coronal"  -> <<3, 4>>
      [] view = "Sagittal" -> <<1, 2>>
ShiftAxis(view) ==
    CASE view = "Axial" -> 3 [] view = "Coronal" -> 2 [] view = "Sagittal" -> 1

\* shift_box's bounds check: TRUE when the shift is refused.
ShiftRefusedLowOnly(box, idx, delta, max_dim) ==
    Min2(box[idx[1]], box[idx[2]]) + delta < 0
ShiftRefused(box, idx, delta, max_dim) ==
    \/ Min2(box[idx[1]], box[idx[2]]) + delta < 0
    \/ Max2(box[idx[1]], box[idx[2]]) + delta >= max_dim

\* shift_box: the box after the call.
ShiftBox(box, idx, delta, max_dim) ==
    IF ShiftRefused(box, idx, delta, max_dim)
    THEN box
    ELSE [i \in 1..6 |-> IF i = idx[1] \/ i = idx[2] THEN box[i] + delta ELSE box[i]]

---------------------------------------------------------------------------
(* AnnotationStore: formatting, rows, files *)

\* n/d rounded to the nearest integer (n >= 0, d > 0).  A value exactly half
\* way goes to the even neighbour; the program's result there depends on the
\* binary double nearest the value.
RoundHalfEven(n, d) ==
    LET q == n \div d
        r == n % d
    IN  IF 2 * r < d THEN q
        ELSE IF 2 * r > d THEN q + 1
        ELSE IF q % 2 = 0 THEN q ELSE q + 1

\* A formatted number f"{v:.6f}": its sign character and its digits, as the
\* count of micro-steps ("-0.000000" and "0.000000" are different texts).
\* v is in ticks.
Fmt6(v) == [neg |-> v < 0, mag |-> RoundHalfEven(Abs(v), Sub)]

\* f"{(a+b)/2:.6f}": the formatted midpoint, from the sum s = a + b.
FmtMid(s) == [neg |-> s < 0, mag |-> RoundHalfEven(Abs(s), 2 * Sub)]

\* A field text float() cannot parse (also the header's column titles).
Garbage == [neg |-> FALSE, mag |-> -1]

\* float(text), in ticks.
ParseFloat(tok) == IF tok.neg THEN -(tok.mag * Sub) ELSE tok.mag * Sub

\* ap_str / lat_str: "v1;v2;v3;v4" as the sequence of its four texts.
ApStr(box) == <<Fmt6(box[1]), Fmt6(box[2]), Fmt6(box[5]), Fmt6(box[6])>>
LatStrZFromY(box) == <<Fmt6(box[3]), Fmt6(box[4]), Fmt6(box[3]), Fmt6(box[4])>>
LatStr(box) == <<Fmt6(box[3]), Fmt6(box[4]), Fmt6(box[5]), Fmt6(box[6])>>

\* The three files the session touches.
OUTPUT_CSV == "annotations/annotations.csv"
\* safe_name: the characters of the name that are alphanumeric, ' ', '_'
\* or '-', stripped, with '_' for ' '.
SafeName(name) == IF name = "Jane." THEN "Jane" ELSE name
UserCsvOf(safe_name) ==
    CASE safe_name = "Jane" -> "annotations/Jane_annotations.csv"
SessionLogOf(safe_name) ==
    CASE safe_name = "Jane" -> "statistics/Jane_statistics.csv"
UserCsv == UserCsvOf(SafeName(Resident))
SessionLog == SessionLogOf(SafeName(Resident))
FileNames ==
    {OUTPUT_CSV} \cup {UserCsvOf(SafeName(n)) : n \in Names}
                 \cup {SessionLogOf(SafeName(n)) : n \in Names}

\* targets of submit_annotation, in write order.
Targets == <<OUTPUT_CSV, UserCsv>>

HeaderRow ==
    <<"CaseID", "FileName", "Resident", "LandmarkIdx", "LandmarkName",
      Garbage, Garbage, Garbage, <<Garbage>>, <<Garbage>> >>

CaseId(ci) == FileList[ci + 1][1]
FileName(ci) == FileList[ci + 1][2]
LmIdx(li) == LANDMARKS[li + 1][1]
LmName(li) == LANDMARKS[li + 1][2]

\* The row submit_annotation builds for a box.
RowFor(name, ci, li, box) ==
    <<CaseId(ci), FileName(ci), name, LmIdx(li), LmName(li),
      FmtMid(box[1] + box[2]), FmtMid(box[3] + box[4]), FmtMid(box[5] + box[6]),
      ApStr(box), LatStr(box)>>
AnnotationRow(ci, li, box) == RowFor(Resident, ci, li, box)

\* new_row[5:] / last_entry[5:]
Tail5(row) == SubSeq(row, 6, Len(row))

\* is_duplicate's filter: the rows (header included) of more than 9 fields
\* with the new row's case id, resident and landmark index, in file order.
RECURSIVE MatchingRowsOver10(_, _)
MatchingRowsOver10(rows, new_row) ==
    IF rows = <<>> THEN <<>>
    ELSE LET r == Head(rows)
             rest == MatchingRowsOver10(Tail(rows), new_row)
         IN  IF Len(r) > 10 /\ r[1] = new_row[1] /\ r[3] = new_row[3] /\ r[4] = new_row[4]
             THEN <<r>> \o rest
             ELSE rest
RECURSIVE MatchingRows(_, _)
MatchingRows(rows, new_row) ==
    IF rows = <<>> THEN <<>>
    ELSE LET r == Head(rows)
             rest == MatchingRows(Tail(rows), new_row)
         IN  IF Len(r) > 9 /\ r[1] = new_row[1] /\ r[3] = new_row[3] /\ r[4] = new_row[4]
             THEN <<r>> \o rest
             ELSE rest

\* is_duplicate(fname, new_row)
IsDuplicateNever(file, new_row) == FALSE
IsDuplicate(file, new_row) ==
    IF ~file.exists THEN FALSE
    ELSE IF file.rows = <<>> THEN FALSE
    ELSE LET matching == MatchingRows(file.rows, new_row)
         IN  IF matching = <<>> THEN FALSE
             ELSE Tail5(matching[Len(matching)]) = Tail5(new_row)

\* open(fname, 'a') and the writes: the header first when the file is new.
AppendRowTruncating(file, row) ==
    [exists |-> TRUE, rows |-> <<HeaderRow, row>>]
AppendRow(file, row) ==
    [exists |-> TRUE,
     rows |-> IF file.exists THEN Append(file.rows, row) ELSE <<HeaderRow, row>>]

\* The write loop of submit_annotation over targets k..2 with the files fs;
\* deny is the set of files whose open for append raises PermissionError.
\* Gives the files after the loop, whether it ended by the exception, and
\* each target's outcome.
RECURSIVE WriteTargets(_, _, _, _, _)
WriteTargets(fs, row, deny, k, res) ==
    IF k > Len(Targets) THEN [files |-> fs, denied |-> FALSE, res |-> res]
    ELSE LET f == Targets[k]
         IN  IF IsDuplicate(fs[f], row)
             THEN WriteTargets(fs, row, deny, k + 1, [res EXCEPT ![k] = "Duplicate"])
             ELSE IF f \in deny
             THEN [files |-> fs, denied |-> TRUE, res |-> [res EXCEPT ![k] = "Denied"]]
             ELSE WriteTargets([fs EXCEPT ![f] = AppendRow(fs[f], row)], row, deny,
                               k + 1, [res EXCEPT ![k] = "Written"])

NoRes == <<"None", "None">>

\* load_existing_annotation's scan: the last row after the header with at
\* least 10 fields and the key; None when there is none.
RECURSIVE ScanTargetFirst(_, _, _, _, _, _)
ScanTargetFirst(rows, i, name, cid, lm, target) ==
    IF i > Len(rows) THEN target
    ELSE LET row == rows[i]
         IN  IF Len(row) >= 10 /\ row[1] = cid /\ row[3] = name /\ row[4] = lm
                /\ target = None
             THEN ScanTargetFirst(rows, i + 1, name, cid, lm, row)
             ELSE ScanTargetFirst(rows, i + 1, name, cid, lm, target)
RECURSIVE ScanTarget(_, _, _, _, _, _)
ScanTarget(rows, i, name, cid, lm, target) ==
    IF i > Len(rows) THEN target
    ELSE LET row == rows[i]
         IN  IF Len(row) >= 10 /\ row[1] = cid /\ row[3] = name /\ row[4] = lm
             THEN ScanTarget(rows, i + 1, name, cid, lm, row)
             ELSE ScanTarget(rows, i + 1, name, cid, lm, target)

\* [float(x) for x in text.split(';')] succeeds, and the parts read exist.
Parsable(parts, n) ==
    /\ Len(parts) >= n
    /\ \A k \in 1..Len(parts) : parts[k] # Garbage

\* The box decoded from a row: X from AP_Box, Y from Lat_Box, Z from AP_Box.
DecodeRowYFromAp(row) ==
    <<ParseFloat(row[9][1]), ParseFloat(row[9][2]),
      ParseFloat(row[9][3]), ParseFloat(row[9][4]),
      ParseFloat(row[9][3]), ParseFloat(row[9][4])>>
DecodeRow(row) ==
    <<ParseFloat(row[9][1]), ParseFloat(row[9][2]),
      ParseFloat(row[10][1]), ParseFloat(row[10][2]),
      ParseFloat(row[9][3]), ParseFloat(row[9][4])>>

\* load_existing_annotation: [found, box]
LoadExistingAs(name, file, ci, li) ==
    IF ~file.exists THEN [found |-> FALSE, box |-> None]
    ELSE IF file.rows = <<>> THEN [found |-> FALSE, box |-> None]
    ELSE LET target_row == ScanTarget(file.rows, 2, name, CaseId(ci), LmIdx(li), None)
         IN  IF target_row = None THEN [found |-> FALSE, box |-> None]
             ELSE IF ~(Parsable(target_row[9], 4) /\ Parsable(target_row[10], 2))
             THEN [found |-> FALSE, box |-> None]
             ELSE [found |-> TRUE, box |-> DecodeRow(target_row)]
LoadExisting(file, ci, li) == LoadExistingAs(Resident, file, ci, li)

---------------------------------------------------------------------------
(* Bounds of the model *)

\* Data rows an annotation log may hold, rows the statistics log may hold,
\* and the largest value of the click and help counters.
MaxRows == 2
MaxStats == 1
MaxCount == 1

\* A step may leave a file as long as it is, or grow it up to its bound.
WithinBounds(fs) ==
    /\ Len(fs[OUTPUT_CSV].rows) <= Max2(Len(files[OUTPUT_CSV].rows), MaxRows + 1)
    /\ Len(fs[UserCsv].rows) <= Max2(Len(files[UserCsv].rows), MaxRows + 1)
    /\ Len(fs[SessionLog].rows) <= Max2(Len(files[SessionLog].rows), MaxStats)

\* Coordinates a drag corner may take in the box-only specification, in
\* ticks: -0.25, 1.00000025 and 1.5 voxels (an axes spans -0.5..n-0.5).
BoxCoords == {-(Unit \div 4), Unit + 1, Unit + Unit \div 2}
BoxCorners == BoxCoords \X BoxCoords

\* The drags of the session specification: one on the AP view, whose right
\* edge lies one tick past a whole voxel (below the six decimals a log
\* keeps), and one on the Coronal view over the same rectangle with the
\* right edge on the whole voxel.
SessA == Unit \div 4
SessB == Unit + 1
SessC == Unit \div 2
SessD == Unit + Unit \div 2
SessionDrags ==
    { [view |-> "AP", c1 |-> <<SessA, SessC>>, c2 |-> <<SessB, SessD>>],
      [view |-> "Coronal", c1 |-> <<SessB - 1, SessD>>, c2 |-> <<SessA, SessC>>] }

\* Texts typed into the case search box, and whether file name f contains
\* text s (the `search in f` test of goto_case).
SearchInputs == {"002", "ct", "zzz"}
Contains(s, f) ==
    \/ s = "ct"
    \/ s = "002" /\ f = "002_ct.nii.gz"

\* Which files are unwritable while a handler runs: none, or one of the
\* three.
DenySets == {{}, {OUTPUT_CSV}, {UserCsv}, {SessionLog}}

HuNames == {"Default", "Bone (Soft)", "Bone (Hard)"}

---------------------------------------------------------------------------
(* Handlers of the box: the five rectangle selectors and the scroll wheel *)

Ev(op, view, outcome) ==
    [op |-> op, view |-> view, outcome |-> outcome, rev |-> FALSE, step |-> 0,
     res |-> NoRes, stats |-> "none", load |-> "none", dialog |-> "none"]

\* RectangleSelector(minspanx=5, minspany=5, spancoords='pixels'): a drag
\* whose span is under 5 screen pixels on either axis is not delivered, so
\* the two corners differ in both coordinates.
Delivered(c1, c2) == c1[1] # c2[1] /\ c1[2] # c2[2]

\* on_select_ap / _lat / _axial / _coronal / _sagittal -> update_box_from_view.
\* The MPR selectors are created by refresh_mpr_views and outlive
\* clear_visuals, so an MPR drag can arrive while there is no box.
OnSelectKeepsFlag(view, c1, c2) ==
    /\ Delivered(c1, c2)
    /\ view \in MprViews => rs_mpr
    /\ LET nb == BoxAfterUpdate(box_3d, Shape(case_index), DimIndices(view),
                                RectValues(c1, c2))
       IN  /\ box_3d' = nb
           /\ current_slices' = SlicesOf(nb, Shape(case_index))
           /\ mpr' = SlicesOf(nb, Shape(case_index))
    /\ rs_mpr' = TRUE
    /\ last' = [Ev("select", view, IF box_3d = None THEN "created" ELSE "updated")
                  EXCEPT !.rev = (c1[1] > c2[1] \/ c1[2] > c2[2])]
    /\ UNCHANGED <<case_index, current_landmark_idx, hu_scale, raw_data, data, aip_ap, stat_clicks,
                   stat_help_count, files, resident_name,
                   sel_ap, sel_lat, bbox_3d, is_submitted>>
OnSelect(view, c1, c2) ==
    /\ Delivered(c1, c2)
    /\ view \in MprViews => rs_mpr
    /\ LET nb == BoxAfterUpdate(box_3d, Shape(case_index), DimIndices(view),
                                RectValues(c1, c2))
       IN  /\ box_3d' = nb
           /\ current_slices' = SlicesOf(nb, Shape(case_index))
           /\ mpr' = SlicesOf(nb, Shape(case_index))
    /\ rs_mpr' = TRUE
    /\ is_submitted' = FALSE
    /\ last' = [Ev("select", view, IF box_3d = None THEN "created" ELSE "updated")
                  EXCEPT !.rev = (c1[1] > c2[1] \/ c1[2] > c2[2])]
    /\ UNCHANGED <<case_index, current_landmark_idx, hu_scale, raw_data, data, aip_ap, stat_clicks,
                   stat_help_count, files, resident_name,
                   sel_ap, sel_lat, bbox_3d>>

\* on_scroll over an MPR axes with a box, wheel up (+1) or down (-1):
\* shift_box, then visual_check, update_coords_label, is_submitted = False.
OnScroll(view, step) ==
    /\ box_3d # None
    /\ view \in MprViews
    /\ LET idx == ShiftIndices(view)
           max_dim == Shape(case_index)[ShiftAxis(view)]
           nb == ShiftBox(box_3d, idx, step * Unit, Vox(max_dim))
       IN  /\ box_3d' = nb
           /\ current_slices' = SlicesOf(nb, Shape(case_index))
           /\ mpr' = SlicesOf(nb, Shape(case_index))
           /\ last' = [Ev("scroll", view,
                            IF ShiftRefused(box_3d, idx, step * Unit, Vox(max_dim))
                            THEN "refused" ELSE "shifted") EXCEPT !.step = step]
    /\ rs_mpr' = TRUE
    /\ is_submitted' = FALSE
    /\ UNCHANGED <<case_index, current_landmark_idx, hu_scale, raw_data, data, aip_ap, stat_clicks,
                   stat_help_count, files, resident_name,
                   sel_ap, sel_lat, bbox_3d>>

\* on_scroll returning early: no box, or the wheel over the AP or Lateral axes.
OnScrollIgnored(view, step) ==
    /\ box_3d = None \/ view \notin MprViews
    /\ last' = [Ev("scroll", view, "ignored") EXCEPT !.step = step]
    /\ UNCHANGED <<case_index, current_landmark_idx, box_3d, is_submitted,
                   current_slices, mpr, rs_mpr, hu_scale, raw_data, data, aip_ap, stat_clicks,
                   stat_help_count, files, resident_name,
                   sel_ap, sel_lat, bbox_3d>>

---------------------------------------------------------------------------
(* Volumes, threshold and projections *)

HU_SCALES == [n \in HuNames |->
                 IF n = "Default" THEN -1000 ELSE IF n = "Bone (Soft)" THEN 150 ELSE 350]

\* Intensities found in the case files: padding below air, soft bone, hard bone.
Voxels == <<-1024, 200, 400>>

\* The volume stored in the file of case ci, volume[x][y][z], of shape Shape(ci).
Volume(ci) ==
    [x \in 1..Shape(ci)[1] |->
        [y \in 1..Shape(ci)[2] |->
            [z \in 1..Shape(ci)[3] |-> Voxels[((x + 2 * y + z + ci) % Len(Voxels)) + 1]]]]

ShapeOf(volume) == <<Len(volume), Len(volume[1]), Len(volume[1][1])>>

\* np.flip(volume, axis=0)
FlipX(volume) == [x \in 1..Len(volume) |-> volume[Len(volume) + 1 - x]]

\* load_case's volume for case ci
LoadVolume(ci) == FlipX(Volume(ci))

\* np.where(raw < threshold, -1000, raw)
ApplyHuScale(raw, threshold) ==
    [x \in 1..Len(raw) |->
        [y \in 1..Len(raw[x]) |->
            [z \in 1..Len(raw[x][y]) |->
                IF raw[x][y][z] < threshold THEN -1000 ELSE raw[x][y][z]]]]

RECURSIVE SumSeq(_)
SumSeq(s) == IF s = <<>> THEN 0 ELSE s[1] + SumSeq(Tail(s))

\* The mean of a sequence of intensities, as the exact fraction sum / n.
Mean(s) == [sum |-> SumSeq(s), n |-> Len(s)]

\* The voxel at position k along the collapsed axis and (i, j) along the
\* two kept axes, in their order.
VoxelAt(volume, axis, i, j, k) ==
    IF axis = 0 THEN volume[k][i][j]
    ELSE IF axis = 1 THEN volume[i][k][j]
    ELSE volume[i][j][k]

KeptAxes(axis) == SelectSeq(<<0, 1, 2>>, LAMBDA d : d # axis)

\* np.mean(volume, axis=axis)
GenerateAipNextAxis(volume, axis) ==
    LET s == ShapeOf(volume)
        other == (axis + 1) % 3
        keep == KeptAxes(other)
    IN  [i \in 1..s[keep[1] + 1] |->
            [j \in 1..s[keep[2] + 1] |->
                Mean([k \in 1..s[other + 1] |-> VoxelAt(volume, other, i, j, k)])]]
GenerateAip(volume, axis) ==
    LET s == ShapeOf(volume)
        keep == KeptAxes(axis)
    IN  [i \in 1..s[keep[1] + 1] |->
            [j \in 1..s[keep[2] + 1] |->
                Mean([k \in 1..s[axis + 1] |-> VoxelAt(volume, axis, i, j, k)])]]

\* ndarray.T of a 2D array
Transpose(img) ==
    [j \in 1..Len(img[1]) |-> [i \in 1..Len(img) |-> img[i][j]]]

\* The AP and Lateral projections shown, made from the thresholded volume.
ApView == Transpose(GenerateAip(data, 1))
LatView == Transpose(GenerateAip(data, 0))

\* test_pipeline: the projection of the volume along one axis
TestAip(axis) ==
    /\ aip_ap' = [axis |-> axis, img |-> GenerateAip(raw_data, axis)]
    /\ last' = Ev("aip", "", "none")
    /\ UNCHANGED <<case_index, current_landmark_idx, box_3d, is_submitted,
                   current_slices, mpr, rs_mpr, hu_scale, raw_data, data,
                   stat_clicks, stat_help_count, files, resident_name,
                   sel_ap, sel_lat, bbox_3d>>

---------------------------------------------------------------------------
(* Saving, statistics, loading *)

\* submit_annotation(silent) with the files in deny unwritable: the files,
\* the flag and the outcome afterwards, and the message box shown, if any
\* ("Already saved" is a status label, not a message box).
SubmitAnnotationMarksSaved(silent, deny) ==
    IF box_3d = None
    THEN [files |-> files, sub |-> is_submitted, outcome |-> "nobox", res |-> NoRes,
          dialog |-> IF silent THEN "none" ELSE "warning"]
    ELSE IF is_submitted /\ ~silent
    THEN [files |-> files, sub |-> is_submitted, outcome |-> "already", res |-> NoRes,
          dialog |-> "none"]
    ELSE LET w == WriteTargets(files,
                               AnnotationRow(case_index, current_landmark_idx, box_3d),
                               deny, 1, NoRes)
         IN  [files |-> w.files,
              sub |-> TRUE,
              outcome |-> IF w.denied THEN "denied" ELSE "saved",
              res |-> w.res,
              dialog |-> IF w.denied /\ ~silent THEN "error" ELSE "none"]
SubmitAnnotation(silent, deny) ==
    IF box_3d = None
    THEN [files |-> files, sub |-> is_submitted, outcome |-> "nobox", res |-> NoRes,
          dialog |-> IF silent THEN "none" ELSE "warning"]
    ELSE IF is_submitted /\ ~silent
    THEN [files |-> files, sub |-> is_submitted, outcome |-> "already", res |-> NoRes,
          dialog |-> "none"]
    ELSE LET w == WriteTargets(files,
                               AnnotationRow(case_index, current_landmark_idx, box_3d),
                               deny, 1, NoRes)
         IN  [files |-> w.files,
              sub |-> IF w.denied THEN is_submitted ELSE TRUE,
              outcome |-> IF w.denied THEN "denied" ELSE "saved",
              res |-> w.res,
              dialog |-> IF w.denied /\ ~silent THEN "error" ELSE "none"]

\* log_statistics on files fs: one row <<case id, landmark name, clicks,
\* help count>> (duration and timestamp are wall-clock values, left out),
\* then the counters reset; nothing changes when the write fails.
LogStatisticsResetsOnFailure(fs, deny) ==
    IF SessionLog \in deny
    THEN [files |-> fs, clicks |-> 0, help |-> 0, stats |-> "failed"]
    ELSE [files |-> [fs EXCEPT ![SessionLog].rows =
                        Append(@, <<CaseId(case_index), LmName(current_landmark_idx),
                                    stat_clicks, stat_help_count>>)],
          clicks |-> 0, help |-> 0, stats |-> "logged"]
LogStatistics(fs, deny) ==
    IF SessionLog \in deny
    THEN [files |-> fs, clicks |-> stat_clicks, help |-> stat_help_count,
          stats |-> "failed"]
    ELSE [files |-> [fs EXCEPT ![SessionLog].rows =
                        Append(@, <<CaseId(case_index), LmName(current_landmark_idx),
                                    stat_clicks, stat_help_count>>)],
          clicks |-> 0, help |-> 0, stats |-> "logged"]

NoStatistics(fs) ==
    [files |-> fs, clicks |-> stat_clicks, help |-> stat_help_count, stats |-> "none"]

\* on_landmark_change for case ci and landmark li over files fs: the loaded
\* box and what the views show, or the cleared views.
LandmarkChangeKeepsBox(fs, ci, li) ==
    LET ld == LoadExisting(fs[OUTPUT_CSV], ci, li)
    IN  IF ld.found
        THEN [box |-> ld.box, sub |-> TRUE,
              slices |-> SlicesOf(ld.box, Shape(ci)),
              mpr |-> SlicesOf(ld.box, Shape(ci)), rs |-> TRUE, load |-> "loaded"]
        ELSE [box |-> box_3d, sub |-> FALSE, slices |-> current_slices,
              mpr |-> None, rs |-> rs_mpr, load |-> "cleared"]
LandmarkChangeShowsCentre(fs, ci, li) ==
    LET ld == LoadExisting(fs[OUTPUT_CSV], ci, li)
    IN  IF ld.found
        THEN [box |-> ld.box, sub |-> TRUE,
              slices |-> SlicesOf(ld.box, Shape(ci)),
              mpr |-> SlicesOf(ld.box, Shape(ci)), rs |-> TRUE, load |-> "loaded"]
        ELSE [box |-> None, sub |-> FALSE, slices |-> current_slices,
              mpr |-> <<Shape(ci)[3] \div 2, Shape(ci)[2] \div 2, Shape(ci)[1] \div 2>>,
              rs |-> rs_mpr, load |-> "cleared"]
LandmarkChange(fs, ci, li) ==
    LET ld == LoadExisting(fs[OUTPUT_CSV], ci, li)
    IN  IF ld.found
        THEN [box |-> ld.box, sub |-> TRUE,
              slices |-> SlicesOf(ld.box, Shape(ci)),
              mpr |-> SlicesOf(ld.box, Shape(ci)), rs |-> TRUE, load |-> "loaded"]
        ELSE [box |-> None, sub |-> FALSE, slices |-> current_slices,
              mpr |-> None, rs |-> rs_mpr, load |-> "cleared"]

\* The common tail of the navigation handlers: s is the save's result, st
\* the statistics flush's, and the view moves to (ci, li) when move holds.
Navigate(op, s, st, move, ci, li) ==
    /\ WithinBounds(st.files)
    /\ files' = st.files
    /\ stat_clicks' = st.clicks
    /\ stat_help_count' = st.help
    /\ hu_scale' = hu_scale
    /\ aip_ap' = aip_ap
    /\ resident_name' = resident_name
    /\ UNCHANGED <<sel_ap, sel_lat, bbox_3d>>
    /\ IF move /\ ci # case_index
       THEN /\ raw_data' = LoadVolume(ci)
            /\ data' = ApplyHuScale(LoadVolume(ci), HU_SCALES[hu_scale])
       ELSE UNCHANGED <<raw_data, data>>
    /\ IF move
       THEN LET c == LandmarkChange(st.files, ci, li)
            IN  /\ case_index' = ci
                /\ current_landmark_idx' = li
                /\ box_3d' = c.box
                /\ is_submitted' = c.sub
                /\ current_slices' = c.slices
                /\ mpr' = c.mpr
                /\ rs_mpr' = c.rs
                /\ last' = [Ev(op, "", s.outcome) EXCEPT
                              !.res = s.res, !.stats = st.stats, !.load = c.load,
                              !.dialog = s.dialog]
       ELSE /\ is_submitted' = s.sub
            /\ last' = [Ev(op, "", s.outcome) EXCEPT
                          !.res = s.res, !.stats = st.stats, !.load = "stay",
                          !.dialog = s.dialog]
            /\ UNCHANGED <<case_index, current_landmark_idx, box_3d, current_slices,
                           mpr, rs_mpr>>

InRange(index) == index >= 0 /\ index < Len(FileList)

\* prev_case / next_case: save silently, flush statistics, load_case(index),
\* which returns at once when the index is out of range.
PrevCaseBlockedByDenial(deny) ==
    LET s == SubmitAnnotation(TRUE, deny)
    IN  Navigate("prev_case", s, LogStatistics(s.files, deny),
                 InRange(case_index - 1) /\ s.outcome # "denied",
                 case_index - 1, current_landmark_idx)
PrevCase(deny) ==
    LET s == SubmitAnnotation(TRUE, deny)
    IN  Navigate("prev_case", s, LogStatistics(s.files, deny),
                 InRange(case_index - 1), case_index - 1, current_landmark_idx)

NextCaseWraps(deny) ==
    LET s == SubmitAnnotation(TRUE, deny)
    IN  Navigate("next_case", s, LogStatistics(s.files, deny),
                 TRUE, (case_index + 1) % Len(FileList), current_landmark_idx)
NextCase(deny) ==
    LET s == SubmitAnnotation(TRUE, deny)
    IN  Navigate("next_case", s, LogStatistics(s.files, deny),
                 InRange(case_index + 1), case_index + 1, current_landmark_idx)

\* goto_case: save silently, then load the first file whose name contains
\* the search text, if any; "Not Found" is shown when there is none.
GotoCaseNoSave(search, deny) ==
    LET hits == {i \in 0..(Len(FileList) - 1) : Contains(search, FileName(i))}
        first == IF hits = {} THEN -1 ELSE CHOOSE i \in hits : \A j \in hits : i <= j
    IN  Navigate("goto_case",
                 [files |-> files, sub |-> is_submitted, outcome |-> "none",
                  res |-> NoRes, dialog |-> IF hits = {} THEN "info" ELSE "none"],
                 NoStatistics(files), hits # {}, first, current_landmark_idx)
GotoCase(search, deny) ==
    LET s == SubmitAnnotation(TRUE, deny)
        hits == {i \in 0..(Len(FileList) - 1) : Contains(search, FileName(i))}
        first == IF hits = {} THEN -1 ELSE CHOOSE i \in hits : \A j \in hits : i <= j
    IN  Navigate("goto_case", [s EXCEPT !.dialog = IF hits = {} THEN "info" ELSE @],
                 NoStatistics(s.files), hits # {}, first, current_landmark_idx)

\* prev_landmark / next_landmark
PrevLandmark(deny) ==
    LET s == SubmitAnnotation(TRUE, deny)
    IN  Navigate("prev_landmark", s, LogStatistics(s.files, deny), TRUE, case_index,
                 (current_landmark_idx - 1) % Len(LANDMARKS))

NextLandmark(deny) ==
    LET s == SubmitAnnotation(TRUE, deny)
    IN  Navigate("next_landmark", s, LogStatistics(s.files, deny), TRUE, case_index,
                 (current_landmark_idx + 1) % Len(LANDMARKS))

\* A landmark picked in the combobox: on_landmark_change alone.
OnLandmarkChange(li) ==
    Navigate("landmark_select", 
             [files |-> files, sub |-> is_submitted, outcome |-> "none", res |-> NoRes,
              dialog |-> "none"],
             NoStatistics(files), TRUE, case_index, li)

\* submit_manual: the explicit save, and a statistics row when it saved.
SubmitManualAlwaysLogs(deny) ==
    LET s == SubmitAnnotation(FALSE, deny)
    IN  Navigate("submit", s, LogStatistics(s.files, deny), FALSE, case_index,
                 current_landmark_idx)
SubmitManual(deny) ==
    LET s == SubmitAnnotation(FALSE, deny)
        st == IF ~is_submitted /\ s.sub THEN LogStatistics(s.files, deny)
              ELSE NoStatistics(s.files)
    IN  Navigate("submit", s, st, FALSE, case_index, current_landmark_idx)

\* on_stat_click (a button press inside a view) and show_help
OnStatClick ==
    /\ stat_clicks < MaxCount
    /\ stat_clicks' = stat_clicks + 1
    /\ last' = Ev("click", "", "none")
    /\ UNCHANGED <<case_index, current_landmark_idx, box_3d, is_submitted,
                   current_slices, mpr, rs_mpr, hu_scale, raw_data, data, aip_ap, stat_help_count, files, resident_name,
                   sel_ap, sel_lat, bbox_3d>>

ShowHelp ==
    /\ stat_help_count < MaxCount
    /\ stat_help_count' = stat_help_count + 1
    /\ last' = Ev("help", "", "none")
    /\ UNCHANGED <<case_index, current_landmark_idx, box_3d, is_submitted,
                   current_slices, mpr, rs_mpr, hu_scale, raw_data, data, aip_ap, stat_clicks, files, resident_name,
                   sel_ap, sel_lat, bbox_3d>>

\* on_scale_change: the projections are recomputed; the slices are shown
\* again when there is a box, the MPR views cleared otherwise.
OnScaleChangeMarksUnsaved(scale) ==
    /\ hu_scale' = scale
    /\ IF box_3d # None
       THEN /\ current_slices' = SlicesOf(box_3d, Shape(case_index))
            /\ mpr' = SlicesOf(box_3d, Shape(case_index))
            /\ rs_mpr' = TRUE
       ELSE /\ mpr' = None
            /\ UNCHANGED <<current_slices, rs_mpr>>
    /\ is_submitted' = FALSE
    /\ data' = ApplyHuScale(raw_data, HU_SCALES[scale])
    /\ last' = Ev("scale", "", "none")
    /\ UNCHANGED <<case_index, current_landmark_idx, box_3d, raw_data, aip_ap,
                   stat_clicks, stat_help_count, files, resident_name,
                   sel_ap, sel_lat, bbox_3d>>
OnScaleChange(scale) ==
    /\ hu_scale' = scale
    /\ IF box_3d # None
       THEN /\ current_slices' = SlicesOf(box_3d, Shape(case_index))
            /\ mpr' = SlicesOf(box_3d, Shape(case_index))
            /\ rs_mpr' = TRUE
       ELSE /\ mpr' = None
            /\ UNCHANGED <<current_slices, rs_mpr>>
    /\ data' = ApplyHuScale(raw_data, HU_SCALES[scale])
    /\ last' = Ev("scale", "", "none")
    /\ UNCHANGED <<case_index, current_landmark_idx, box_3d, is_submitted,
                   raw_data, aip_ap, stat_clicks, stat_help_count, files, resident_name,
                   sel_ap, sel_lat, bbox_3d>>

---------------------------------------------------------------------------
(* The two-view prototype (InteractiveAnnotator) *)

\* on_select_ap / on_select_lat: the selector's extents
\* (x_min, x_max, z_min, z_max) and (y_min, y_max, z_min, z_max), in ticks.
VisOnSelectAp(extents) ==
    /\ sel_ap' = extents
    /\ last' = Ev("vis_select", "AP", "none")
    /\ UNCHANGED <<case_index, current_landmark_idx, box_3d, is_submitted,
                   current_slices, mpr, rs_mpr, hu_scale, raw_data, data, aip_ap,
                   stat_clicks, stat_help_count, files, resident_name,
                   sel_lat, bbox_3d>>

VisOnSelectLat(extents) ==
    /\ sel_lat' = extents
    /\ last' = Ev("vis_select", "Lat", "none")
    /\ UNCHANGED <<case_index, current_landmark_idx, box_3d, is_submitted,
                   current_slices, mpr, rs_mpr, hu_scale, raw_data, data, aip_ap,
                   stat_clicks, stat_help_count, files, resident_name,
                   sel_ap, bbox_3d>>

\* The box confirm hands to show_mpr, in whole voxels, or None when it
\* returns before making one.
BBoxAnyRanges(ap, lat) ==
    IF ap = None THEN None
    ELSE IF lat = None THEN None
    ELSE LET z_min == Max2(ap[3], lat[3])
             z_max == Min2(ap[4], lat[4])
         IN  [x |-> <<Trunc(ap[1], Unit), Trunc(ap[2], Unit)>>,
              y |-> <<Trunc(lat[1], Unit), Trunc(lat[2], Unit)>>,
              z |-> <<Trunc(z_min, Unit), Trunc(z_max, Unit)>>]
BBox(ap, lat) ==
    IF ap = None THEN None
    ELSE IF lat = None THEN None
    ELSE LET z_min == Max2(ap[3], lat[3])
             z_max == Min2(ap[4], lat[4])
         IN  IF z_min >= z_max THEN None
             ELSE [x |-> <<Trunc(ap[1], Unit), Trunc(ap[2], Unit)>>,
                   y |-> <<Trunc(lat[1], Unit), Trunc(lat[2], Unit)>>,
                   z |-> <<Trunc(z_min, Unit), Trunc(z_max, Unit)>>]

\* confirm
Confirm ==
    /\ bbox_3d' = BBox(sel_ap, sel_lat)
    /\ last' = Ev("confirm", "",
                  IF BBox(sel_ap, sel_lat) # None THEN "box"
                  ELSE IF Min2(Len(sel_ap), Len(sel_lat)) = 0 THEN "missing"
                  ELSE "no_overlap")
    /\ UNCHANGED <<case_index, current_landmark_idx, box_3d, is_submitted,
                   current_slices, mpr, rs_mpr, hu_scale, raw_data, data, aip_ap,
                   stat_clicks, stat_help_count, files, resident_name,
                   sel_ap, sel_lat>>

---------------------------------------------------------------------------
(* Specifications *)

Absent == [exists |-> FALSE, rows |-> <<>>]

\* No annotation log yet; the statistics log is created at construction.
FreshFiles ==
    [f \in FileNames |-> IF f = SessionLogOf(SafeName(FirstName))
                         THEN [exists |-> TRUE, rows |-> <<>>]
                         ELSE Absent]

\* The state after TkAnnotator.__init__ over the files fs: load_case(0)
\* ends in on_landmark_change, which loads a stored box of the first
\* landmark if there is one.
InitOver(fs, volume) ==
    LET ld == LoadExisting(fs[OUTPUT_CSV], 0, 0)
    IN  /\ case_index = 0
        /\ resident_name = FirstName
        /\ sel_ap = None /\ sel_lat = None /\ bbox_3d = None
        /\ raw_data = FlipX(volume)
        /\ data = ApplyHuScale(FlipX(volume), HU_SCALES["Default"])
        /\ aip_ap = None
        /\ current_landmark_idx = 0
        /\ hu_scale = "Default"
        /\ stat_clicks = 0
        /\ stat_help_count = 0
        /\ files = fs
        /\ box_3d = ld.box
        /\ is_submitted = ld.found
        /\ current_slices = IF ld.found THEN SlicesOf(ld.box, Shape(0)) ELSE <<0, 0, 0>>
        /\ mpr = IF ld.found THEN SlicesOf(ld.box, Shape(0)) ELSE None
        /\ rs_mpr = ld.found
        /\ last = [Ev("init", "", "none") EXCEPT
                      !.load = IF ld.found THEN "loaded" ELSE "cleared"]

InitWith(fs) == InitOver(fs, Volume(0))

\* The program closed and started again with the name given at the login
\* dialog: __init__ over the files as they are, which creates the
\* statistics log of the name when there is none.
Login(name) ==
    LET log == SessionLogOf(SafeName(name))
        fs == IF files[log].exists THEN files
              ELSE [files EXCEPT ![log] = [exists |-> TRUE, rows |-> <<>>]]
        ld == LoadExistingAs(name, fs[OUTPUT_CSV], 0, 0)
    IN  /\ resident_name' = name
        /\ UNCHANGED <<sel_ap, sel_lat, bbox_3d>>
        /\ case_index' = 0
        /\ raw_data' = LoadVolume(0)
        /\ data' = ApplyHuScale(LoadVolume(0), HU_SCALES["Default"])
        /\ aip_ap' = None
        /\ current_landmark_idx' = 0
        /\ hu_scale' = "Default"
        /\ stat_clicks' = 0
        /\ stat_help_count' = 0
        /\ files' = fs
        /\ box_3d' = ld.box
        /\ is_submitted' = ld.found
        /\ current_slices' = IF ld.found THEN SlicesOf(ld.box, Shape(0)) ELSE <<0, 0, 0>>
        /\ mpr' = IF ld.found THEN SlicesOf(ld.box, Shape(0)) ELSE None
        /\ rs_mpr' = ld.found
        /\ last' = [Ev("init", "", "none") EXCEPT
                       !.load = IF ld.found THEN "loaded" ELSE "cleared"]

Init == InitWith(FreshFiles)

\* The annotation store: drags, scrolls, explicit saves and landmark
\* navigation within the first case (with two landmarks the previous
\* landmark is the next one, so one of the two buttons is enough).
Next ==
    \/ \E d \in SessionDrags : OnSelect(d.view, d.c1, d.c2)
    \/ \E v \in Views, step \in {-1, 1} : OnScroll(v, step)
    \/ \E deny \in DenySets : SubmitManual(deny)
    \/ \E deny \in DenySets : NextLandmark(deny)
    \/ \E li \in 0..(Len(LANDMARKS) - 1) : OnLandmarkChange(li)

Spec == Init /\ [][Next]_vars

\* The box alone: every drag of the five views, the scroll wheel, and the
\* landmark combobox (which clears the box while no log exists).
NextBox ==
    \/ \E v \in Views, c1 \in BoxCorners, c2 \in BoxCorners : OnSelect(v, c1, c2)
    \/ \E v \in Views, step \in {-1, 1} : OnScroll(v, step)
    \/ \E v \in Views, step \in {-1, 1} : OnScrollIgnored(v, step)
    \/ \E li \in 0..(Len(LANDMARKS) - 1) : OnLandmarkChange(li)

SpecBox == Init /\ [][NextBox]_vars

\* A session over an annotations.csv left by earlier sessions.  The boxes
\* of its records:
LegacyBox(k) ==
    CASE k = 1 -> <<0, Unit, 0, Unit, 0, Unit>>
      [] k = 2 -> <<0, Unit, 0, Unit, Unit, 2 * Unit>>
      [] k = 3 -> <<Unit \div 2, Unit, 0, Unit, 0, Unit>>
      [] k = 4 -> <<0, Unit \div 2, 0, Unit, 0, Unit>>
      [] k = 5 -> <<0, Unit, Unit, 2 * Unit, 0, Unit>>
      [] k = 6 -> <<-(3 * Unit), -Unit, 0, Unit, 2 * Unit, 6 * Unit>>
      [] k = 7 -> <<Unit, 0, Unit, 0, 2 * Unit, Unit>>

\* Rows an editor or another program left: another resident's record, a
\* row cut short, a row with a field too many, a row whose AP_Box is not
\* numeric.
LegacyRow(ci, li, box) == RowFor(FirstName, ci, li, box)
OtherResident(row) == [row EXCEPT ![3] = "Bob"]
CutShort(row) == SubSeq(row, 1, 9)
ExtraField(row) == Append(row, Fmt6(0))
Garbled(row) == [row EXCEPT ![9] = <<Garbage>>]

\* Well-formed records of several keys, interleaved.
LogInterleaved ==
    << HeaderRow,
       LegacyRow(0, 0, LegacyBox(1)),
       LegacyRow(0, 1, LegacyBox(2)),
       LegacyRow(0, 0, LegacyBox(3)),
       LegacyRow(1, 0, LegacyBox(5)),
       OtherResident(LegacyRow(0, 0, LegacyBox(4))),
       LegacyRow(0, 1, LegacyBox(1)),
       LegacyRow(1, 1, LegacyBox(2)) >>

\* Malformed rows after well-formed records of the same key.
LogMalformed ==
    << HeaderRow,
       LegacyRow(0, 0, LegacyBox(1)),
       CutShort(LegacyRow(0, 0, LegacyBox(3))),
       LegacyRow(0, 1, LegacyBox(2)),
       Garbled(LegacyRow(0, 1, LegacyBox(4))),
       ExtraField(LegacyRow(1, 0, LegacyBox(5))) >>

\* Well-formed records of boxes the program itself would not have drawn:
\* one lying partly outside the volume (centre below 0 on X, beyond the
\* last slice on Z), and one whose pairs are stored as (max, min).
LogOddBoxes ==
    << HeaderRow,
       LegacyRow(0, 0, LegacyBox(6)),
       LegacyRow(0, 1, LegacyBox(7)) >>

LegacyLogs == {LogInterleaved, LogMalformed, LogOddBoxes}

FilesWith(log) == [FreshFiles EXCEPT ![OUTPUT_CSV] = [exists |-> TRUE, rows |-> log]]

InitLegacy == \E log \in LegacyLogs : InitWith(FilesWith(log))

NextLegacy ==
    \/ \E d \in SessionDrags : OnSelect(d.view, d.c1, d.c2)
    \/ \E deny \in DenySets : SubmitManual(deny)
    \/ \E deny \in DenySets : PrevLandmark(deny)
    \/ \E deny \in DenySets : NextLandmark(deny)
    \/ \E deny \in DenySets : PrevCase(deny)
    \/ \E deny \in DenySets : NextCase(deny)
    \/ \E search \in SearchInputs : GotoCase(search, {})
    \/ \E li \in 0..(Len(LANDMARKS) - 1) : OnLandmarkChange(li)

SpecLegacy == InitLegacy /\ [][NextLegacy]_vars

\* Navigation from a fresh start: the AP drag, explicit saves, the five
\* navigation handlers and the landmark combobox; a save finds every log
\* writable, or the primary log locked.
NavDrag == CHOOSE d \in SessionDrags : d.view = "AP"
NavDeny == {{}, {OUTPUT_CSV}}

NextNav ==
    \/ OnSelect(NavDrag.view, NavDrag.c1, NavDrag.c2)
    \/ \E deny \in NavDeny : SubmitManual(deny)
    \/ \E deny \in NavDeny : PrevLandmark(deny)
    \/ \E deny \in NavDeny : NextLandmark(deny)
    \/ \E deny \in NavDeny : PrevCase(deny)
    \/ \E deny \in NavDeny : NextCase(deny)
    \/ \E search \in SearchInputs, deny \in NavDeny : GotoCase(search, deny)
    \/ \E li \in 0..(Len(LANDMARKS) - 1) : OnLandmarkChange(li)

SpecNav == Init /\ [][NextNav]_vars

\* Usage statistics: clicks, the help button, the AP drag, explicit saves,
\* the next landmark and the case search; the statistics log may be
\* unwritable.
UsageDeny == {{}, {SessionLog}}

NextUsage ==
    \/ OnSelect(NavDrag.view, NavDrag.c1, NavDrag.c2)
    \/ OnStatClick
    \/ ShowHelp
    \/ \E deny \in UsageDeny : SubmitManual(deny)
    \/ NextLandmark({})
    \/ \E search \in SearchInputs \ {"ct"} : GotoCase(search, {})

SpecUsage == Init /\ [][NextUsage]_vars

\* The display: the intensity threshold, with drags, scrolls, explicit
\* saves and landmark changes that make the box come and go.
NextDisplay ==
    \/ \E scale \in HuNames : OnScaleChange(scale)
    \/ \E d \in SessionDrags : OnSelect(d.view, d.c1, d.c2)
    \/ \E step \in {-1, 1} : OnScroll("Axial", step)
    \/ SubmitManual({})
    \/ NextLandmark({})
    \/ \E li \in 0..(Len(LANDMARKS) - 1) : OnLandmarkChange(li)

SpecDisplay == Init /\ [][NextDisplay]_vars

\* The threshold and the projections as functions of the volume: every
\* volume of the shapes below over three intensities, every threshold
\* selection, every projection axis.
ProjShapes == {<<1, 2, 3>>, <<3, 1, 2>>}
VolumesOf(shape) ==
    [1..shape[1] -> [1..shape[2] -> [1..shape[3] -> {Voxels[k] : k \in 1..Len(Voxels)}]]]
InitProjection ==
    \E shape \in ProjShapes : \E volume \in VolumesOf(shape) :
        InitOver(FreshFiles, volume)
NextProjection ==
    \/ \E scale \in HuNames : OnScaleChange(scale)
    \/ \E axis \in 0..2 : TestAip(axis)
SpecProjection == InitProjection /\ [][NextProjection]_vars

\* Sessions one after the other over the same logs, every file writable:
\* a drag whose box re-encodes to the centre its record holds and one whose
\* box does not, explicit saves, landmark navigation, a case search that
\* finds the first case, and a new login under either name.
RevisitDrag ==
    [view |-> "AP", c1 |-> <<SessA, SessC>>, c2 |-> <<SessB + Sub, SessD>>]
NextSessions ==
    \/ \E d \in {NavDrag, RevisitDrag} : OnSelect(d.view, d.c1, d.c2)
    \/ SubmitManual({})
    \/ NextLandmark({})
    \/ GotoCase("ct", {})
    \/ \E li \in 0..(Len(LANDMARKS) - 1) : OnLandmarkChange(li)
    \/ \E name \in Names : Login(name)
SpecSessions == Init /\ [][NextSessions]_vars

\* The prototype: selections on the two views, each a rectangle between
\* two of four coordinates along each axis, and the confirm button.
VisCoords == <<-(Unit \div 2), Unit \div 4, Unit + Unit \div 2, 2 * Unit + Unit \div 4>>
VisRanges == {<<VisCoords[i], VisCoords[j]>> : i \in {1, 2}, j \in {3, 4}}
                 \cup {<<VisCoords[1], VisCoords[2]>>, <<VisCoords[3], VisCoords[4]>>}
VisExtents ==
    {<<h[1], h[2], v[1], v[2]>> : h \in {<<VisCoords[2], VisCoords[3]>>}, v \in VisRanges}
NextPrototype ==
    \/ \E extents \in VisExtents : VisOnSelectAp(extents)
    \/ \E extents \in VisExtents : VisOnSelectLat(extents)
    \/ Confirm
SpecPrototype == Init /\ [][NextPrototype]_vars

---------------------------------------------------------------------------
(* Properties of the box *)

\* The axis-pair (as box indices) a view does not control.
Untouched(view) ==
    CASE view \in {"AP", "Coronal"}   -> <<3, 4>>
      [] view \in {"Lat", "Sagittal"} -> <<1, 2>>
      [] view = "Axial"               -> <<5, 6>>

\* C1: in every state reached by rectangle updates from the five views
\* (corners in either order) and scroll shifts, an existing box has
\* x1 <= x2, y1 <= y2 and z1 <= z2.
C1_BoxOrdered ==
    box_3d # None =>
        /\ box_3d[1] <= box_3d[2]
        /\ box_3d[3] <= box_3d[4]
        /\ box_3d[5] <= box_3d[6]

\* A Sagittal drag with reversed corners lands on a box whose X pair an
\* earlier Sagittal scroll had shifted down by one voxel.
C1_Witness ==
    /\ last.op = "select" /\ last.view = "Sagittal" /\ last.rev
    /\ box_3d[1] = 1 /\ box_3d[2] = Unit \div 2

\* C2: with a box present, a rectangle update changes only the two
\* axis-pairs its view controls: the pair the view does not control keeps
\* its values (Axial: Z; AP, Coronal: Y; Lateral, Sagittal: X).  The spec's
\* scenario: (10,40,0,128,5,20) and a Lateral rectangle y 30..50, z 8..18
\* give (10,40,30,50,8,18).
C2_Scenario ==
    BoxAfterUpdate(<<Vox(10), Vox(40), 0, Vox(128), Vox(5), Vox(20)>>, <<128, 128, 64>>,
                   DimIndices("Lat"), RectValues(<<Vox(50), Vox(8)>>, <<Vox(30), Vox(18)>>))
        = <<Vox(10), Vox(40), Vox(30), Vox(50), Vox(8), Vox(18)>>
C2_Frame ==
    [][ (box_3d # None /\ last'.op = "select") =>
            /\ box_3d'[Untouched(last'.view)[1]] = box_3d[Untouched(last'.view)[1]]
            /\ box_3d'[Untouched(last'.view)[2]] = box_3d[Untouched(last'.view)[2]]
            /\ C2_Scenario ]_vars

\* A Lateral rectangle was drawn on a box whose X pair an earlier drag had set.
C2_Witness ==
    /\ last.op = "select" /\ last.view = "Lat" /\ last.outcome = "updated"
    /\ box_3d[1] = -(Unit \div 4) /\ box_3d[2] = Unit + 1

\* C3: a rectangle update with no box starts from the full extent
\* (0,nx,0,ny,0,nz), so afterwards the axis-pair the view does not control
\* is (0, axis length); this holds for the MPR views too.  The spec's
\* scenario: on a (128,128,64) volume an AP rectangle x 10..40, z 5..20
\* gives (10,40,0,128,5,20).
C3_Scenario ==
    BoxAfterUpdate(None, <<128, 128, 64>>, DimIndices("AP"),
                   RectValues(<<Vox(10), Vox(5)>>, <<Vox(40), Vox(20)>>))
        = <<Vox(10), Vox(40), 0, Vox(128), Vox(5), Vox(20)>>
C3_FullExtentInit ==
    /\ C3_Scenario
    /\ (last.op = "select" /\ last.outcome = "created") =>
            /\ box_3d # None
            /\ box_3d[Untouched(last.view)[1]] = 0
            /\ box_3d[Untouched(last.view)[2]]
                   = Vox(Shapes[case_index + 1][(Untouched(last.view)[2]) \div 2])

\* An Axial drag created the box: its Z pair is the whole axis.
C3_Witness ==
    /\ last.op = "select" /\ last.view = "Axial" /\ last.outcome = "created"
    /\ box_3d[5] = 0 /\ box_3d[6] = Vox(3)

\* C9: a scroll on an MPR view is refused when it would take the lower
\* bound of the shifted axis below 0 or the upper bound to the axis length
\* or beyond, and then the six scalars are unchanged; otherwise both bounds
\* move by the step and stay within [0, axis length).
C9_ShiftBounds ==
    [][ (last'.op = "scroll" /\ last'.view \in MprViews /\ box_3d # None) =>
            LET lo == box_3d[ShiftIndices(last'.view)[1]]
                hi == box_3d[ShiftIndices(last'.view)[2]]
                n == Vox(Shapes[case_index + 1][ShiftAxis(last'.view)])
                d == last'.step * Unit
            IN  IF lo + d < 0 \/ hi + d >= n
                THEN box_3d' = box_3d /\ last'.outcome = "refused"
                ELSE /\ last'.outcome = "shifted"
                     /\ box_3d'[ShiftIndices(last'.view)[1]] = lo + d
                     /\ box_3d'[ShiftIndices(last'.view)[2]] = hi + d
                     /\ box_3d'[ShiftIndices(last'.view)[1]] >= 0
                     /\ box_3d'[ShiftIndices(last'.view)[2]] < n ]_vars

\* An upward Axial scroll was refused at the top of the volume, after an
\* accepted one had moved the box up.
C9_Witness ==
    /\ last.op = "scroll" /\ last.view = "Axial" /\ last.outcome = "refused"
    /\ last.step = 1
    /\ box_3d[5] > Unit /\ box_3d[6] + Unit >= Vox(3)

\* C10: a refused shift changes nothing: the box, the submitted flag and
\* the slice indices are as before.
C10_RefusedShiftNoOp ==
    [][ (last'.op = "scroll" /\ last'.outcome = "refused") =>
            /\ box_3d' = box_3d
            /\ is_submitted' = is_submitted
            /\ current_slices' = current_slices ]_vars

---------------------------------------------------------------------------
(* Properties of the annotation store *)

\* The handlers that call submit_annotation.
SaveOps ==
    {"submit", "prev_landmark", "next_landmark", "prev_case", "next_case", "goto_case"}

\* The records (rows after the header) of a log that carry the key of case
\* ci and landmark li for the resident, as positions in the log.
KeyRows(rows, ci, li) ==
    {i \in 2..Len(rows) : /\ Len(rows[i]) >= 10
                          /\ rows[i][1] = CaseId(ci)
                          /\ rows[i][3] = Resident
                          /\ rows[i][4] = LmIdx(li)}

\* Those of them that are well-formed: ten fields, numeric centre, and two
\* numeric box encodings of four numbers each.
WellFormedKeyRows(rows, ci, li) ==
    {i \in KeyRows(rows, ci, li) :
        /\ Len(rows[i]) = 10
        /\ \A k \in 6..8 : rows[i][k] # Garbage
        /\ \A k \in 9..10 : /\ Len(rows[i][k]) = 4
                             /\ \A j \in 1..4 : rows[i][k][j] # Garbage}

LastOf(S) == CHOOSE i \in S : \A j \in S : j <= i

\* C4 (as stated): for each target log, a save of a box that differs in
\* some coordinate from the box of the last record for the key appends a
\* record to that log.
C4_DifferingBoxAppends ==
    [][ (last'.op \in SaveOps /\ last'.outcome = "saved") =>
            \A k \in 1..Len(Targets) :
                LET rows == files[Targets[k]].rows
                    S == KeyRows(rows, case_index, current_landmark_idx)
                IN  (S # {} /\ DecodeRow(rows[LastOf(S)]) # box_3d) =>
                        Len(files'[Targets[k]].rows) = Len(rows) + 1 ]_vars

\* C4: for each target log, a save that completes (no write is denied)
\* is skipped as a duplicate when the last record for the key in that log
\* has the same formatted centre and box encodings (six decimals) as the
\* box being saved, as it has when the identical box is saved twice in a
\* row; otherwise it appends one record, after the header when the log did
\* not exist.
C4_Dedup ==
    [][ (last'.op \in SaveOps /\ last'.outcome = "saved") =>
            \A k \in 1..Len(Targets) :
                LET f == Targets[k]
                    rows == files[f].rows
                    new == AnnotationRow(case_index, current_landmark_idx, box_3d)
                    S == KeyRows(rows, case_index, current_landmark_idx)
                IN  IF S # {} /\ SubSeq(rows[LastOf(S)], 6, 10) = SubSeq(new, 6, 10)
                    THEN files'[f] = files[f] /\ last'.res[k] = "Duplicate"
                    ELSE /\ last'.res[k] = "Written"
                         /\ files'[f].exists
                         /\ files'[f].rows =
                                (IF files[f].exists THEN rows ELSE <<HeaderRow>>)
                                    \o <<new>> ]_vars

\* An explicit save of the AP drag's box, whose right edge is one tick past
\* the whole voxel the last records hold, was skipped in both logs.
C4_Witness ==
    /\ last.op = "submit" /\ last.res = <<"Duplicate", "Duplicate">>
    /\ box_3d[2] = Unit + 1
    /\ DecodeRow(files[OUTPUT_CSV].rows[Len(files[OUTPUT_CSV].rows)])[2] = Unit

\* C5 (as stated): after a successful save of box B, loading the key gives
\* a box whose six scalars equal those of B.
C5_RoundTripExact ==
    (last.op = "submit" /\ last.outcome = "saved") =>
        LoadExisting(files[OUTPUT_CSV], case_index, current_landmark_idx)
            = [found |-> TRUE, box |-> box_3d]

\* C5: after a successful save of box B under a key, loading the same key
\* finds a record, and each of the six scalars it returns is B's scalar
\* rounded to six decimals (a whole number of micro-steps, at most half a
\* micro-step from B's); X and Z come from AP_Box, Y from Lat_Box.
C5_RoundTrip ==
    (last.op = "submit" /\ last.outcome = "saved") =>
        LET ld == LoadExisting(files[OUTPUT_CSV], case_index, current_landmark_idx)
        IN  /\ ld.found
            /\ \A i \in 1..6 : /\ ld.box[i] % Sub = 0
                                /\ 2 * Abs(ld.box[i] - box_3d[i]) <= Sub

\* The AP drag's box, with an edge one tick past a whole voxel, was saved
\* and written to the primary log.
C5_Witness ==
    /\ last.op = "submit" /\ last.outcome = "saved" /\ last.res[1] = "Written"
    /\ box_3d[2] = Unit + 1

\* C6: after a load, when the primary log holds records with the key and
\* the last of them is well-formed, the box in memory is the box of that
\* last record, whatever records of other keys, cases or residents lie
\* before, between or after them.
C6_LastRecordWins ==
    last.load \in {"loaded", "cleared"} =>
        LET rows == files[OUTPUT_CSV].rows
            S == KeyRows(rows, case_index, current_landmark_idx)
        IN  (S # {} /\ LastOf(S) \in WellFormedKeyRows(rows, case_index,
                                                        current_landmark_idx)) =>
                /\ last.load = "loaded"
                /\ is_submitted
                /\ box_3d = DecodeRow(rows[LastOf(S)])

\* Navigation came back to the first landmark of the first case over the
\* interleaved log: the box is the third record's, not the first's, nor the
\* other resident's which was appended later.
C6_Witness ==
    /\ files[OUTPUT_CSV].rows = LogInterleaved
    /\ last.op = "prev_landmark" /\ last.load = "loaded"
    /\ case_index = 0 /\ current_landmark_idx = 0
    /\ box_3d = LegacyBox(3)

\* C7: after a load, the box in memory is the box of the last well-formed
\* record with the key, and there is no box when there is no such record;
\* malformed rows with the key, before or after it, do not matter.
C7_MalformedSkipped ==
    last.load \in {"loaded", "cleared"} =>
        LET rows == files[OUTPUT_CSV].rows
            W == WellFormedKeyRows(rows, case_index, current_landmark_idx)
        IN  IF W # {} THEN box_3d = DecodeRow(rows[LastOf(W)])
            ELSE box_3d = None

\* C8: the annotation logs and the statistics log are append-only: over
\* every step a file that existed still exists, and the rows it held are
\* an unchanged prefix of the rows it holds afterwards.
C8_AppendOnly ==
    [][ \A f \in FileNames :
            /\ files[f].exists => files'[f].exists
            /\ Len(files'[f].rows) >= Len(files[f].rows)
            /\ SubSeq(files'[f].rows, 1, Len(files[f].rows)) = files[f].rows ]_vars

\* A silent save on leaving the landmark skipped the primary log, which
\* already held the box as its second record, appended to the resident's
\* log, and the statistics row was appended.
C8_Witness ==
    /\ last.op = "next_landmark" /\ last.res = <<"Duplicate", "Written">>
    /\ last.stats = "logged"
    /\ Len(files[OUTPUT_CSV].rows) = 3
    /\ Len(files[SessionLog].rows) = 1

---------------------------------------------------------------------------
(* Properties of the session: the submitted flag, saves, navigation *)

\* C11 (as stated): whenever the submitted flag is set, a box exists and
\* equals the box decoded from the last record of the primary log with the
\* current key.
C11_SubmittedExact ==
    is_submitted =>
        LET rows == files[OUTPUT_CSV].rows
            S == KeyRows(rows, case_index, current_landmark_idx)
        IN  box_3d # None /\ S # {} /\ box_3d = DecodeRow(rows[LastOf(S)])

\* C11: whenever the submitted flag is set, a box exists, the primary log
\* holds a record with the current key, and each scalar of the box is, to
\* six decimals, the scalar decoded from the last such record (they are at
\* most half a micro-step apart); every rectangle update and every
\* accepted shift leaves the flag false.
C11_Submitted ==
    /\ [](is_submitted =>
            LET rows == files[OUTPUT_CSV].rows
                S == KeyRows(rows, case_index, current_landmark_idx)
            IN  /\ box_3d # None
                /\ S # {}
                /\ \A i \in 1..6 :
                       2 * Abs(DecodeRow(rows[LastOf(S)])[i] - box_3d[i]) <= Sub)
    /\ [][ (last'.op = "select" \/ (last'.op = "scroll" /\ last'.outcome = "shifted"))
               => ~is_submitted' ]_vars

\* The flag is set over a box with an edge one tick past a whole voxel,
\* shifted up by a scroll since the first record was written: the primary
\* log's second record is the one it matches.
C11_Witness ==
    /\ is_submitted /\ box_3d # None
    /\ box_3d[2] = Unit + 1 /\ box_3d[5] > Unit
    /\ Len(files[OUTPUT_CSV].rows) = 3

\* C12: an explicit submit while the submitted flag is set is a no-op: no
\* annotation log and no statistics log gets a row, and the box, the flag
\* and the click and help counters are as before.
C12_ResubmitNoOp ==
    [][ (last'.op = "submit" /\ is_submitted) =>
            /\ last'.outcome = "already"
            /\ files' = files
            /\ box_3d' = box_3d
            /\ is_submitted'
            /\ stat_clicks' = stat_clicks
            /\ stat_help_count' = stat_help_count ]_vars

\* "Already saved" was answered to an explicit submit while one click and
\* one use of the help button were counted.
C12_Witness ==
    /\ last.op = "submit" /\ last.outcome = "already"
    /\ is_submitted
    /\ stat_clicks = 1 /\ stat_help_count = 1

\* C13: a save, explicit or silent, that ends on an unwritable target
\* leaves the box as it was and does not set the submitted flag, whether
\* the primary log or the resident's log was the one denied (the primary
\* log then already written); when the handler goes on to another
\* landmark the flag is set afterwards only by a record loaded there.
C13_DeniedSave ==
    [][ (last'.op \in SaveOps /\ last'.outcome = "denied") =>
            IF last'.load = "stay"
            THEN box_3d' = box_3d /\ is_submitted' = is_submitted
            ELSE is_submitted' => last'.load = "loaded" ]_vars

\* An explicit save wrote the primary log and was denied the resident's
\* log: the box is still there and the flag is not set.
C13_Witness ==
    /\ last.op = "submit" /\ last.outcome = "denied"
    /\ last.res = <<"Written", "Denied">>
    /\ box_3d # None /\ ~is_submitted

\* The five navigation handlers.
NavOps == {"prev_landmark", "next_landmark", "goto_case", "prev_case", "next_case"}

\* C14: each of the five navigation handlers attempts a silent save of the
\* box it finds before it changes the landmark or the case: with a box
\* present the save ran (to completion or to a denied write), and every
\* record a navigation step appends to an annotation log is the record of
\* that box under the case and landmark being left.
C14_SaveBeforeMove ==
    [][ last'.op \in NavOps =>
            /\ box_3d # None => last'.outcome \in {"saved", "denied"}
            /\ last'.dialog \in {"none", "info"}
            /\ \A k \in 1..Len(Targets) :
                   LET old == files[Targets[k]].rows
                       new == files'[Targets[k]].rows
                   IN  /\ last'.res[k] = "Written" => Len(new) > Len(old)
                       /\ \A i \in (Len(old) + 1)..Len(new) :
                              \/ i = 1 /\ new[i] = HeaderRow
                              \/ /\ box_3d # None
                                 /\ new[i] = AnnotationRow(case_index,
                                                           current_landmark_idx, box_3d)
                                 /\ new[i][1] = CaseId(case_index)
                                 /\ new[i][4] = LmIdx(current_landmark_idx) ]_vars

\* The case search moved from the first case to the second with a box
\* drawn on the second landmark: the record it wrote is the first case's.
C14_Witness ==
    /\ last.op = "goto_case" /\ last.res[1] = "Written"
    /\ case_index = 1 /\ current_landmark_idx = 1
    /\ LET rows == files[OUTPUT_CSV].rows
       IN  rows[Len(rows)][1] = CaseId(0) /\ rows[Len(rows)][4] = LmIdx(1)

\* C15: each of the five navigation handlers, unless the statistics log is
\* unwritable, appends one statistics row for the case and landmark being
\* left, carrying the counts, and leaves the click and help counters at
\* zero.
C15_StatsFlushed ==
    [][ (last'.op \in NavOps /\ last'.stats # "failed") =>
            /\ files'[SessionLog].rows =
                   Append(files[SessionLog].rows,
                          <<CaseId(case_index), LmName(current_landmark_idx),
                            stat_clicks, stat_help_count>>)
            /\ stat_clicks' = 0
            /\ stat_help_count' = 0 ]_vars

\* C16: whenever a step changes the case or the landmark while there is a
\* box that has not been saved, the step ran a save of that box (to
\* completion or to a denied write).
C16_SaveBeforeDiscard ==
    [][ ( /\ case_index' # case_index \/ current_landmark_idx' # current_landmark_idx
          /\ box_3d # None
          /\ ~is_submitted ) =>
            last'.outcome \in {"saved", "denied"} ]_vars

\* C17: right after a navigation handler or a landmark selection has
\* moved to a case and landmark, the box is the one decoded from the last
\* record of the primary log with the new key when that record is
\* well-formed, and there is no box when the log has no record with the
\* key; in every case a box in memory is the one decoded from that record,
\* never the box of the landmark left, and the submitted flag is set
\* exactly when a record was loaded.
C17_BoxAfterNavigation ==
    (last.op \in NavOps \cup {"landmark_select"} /\ last.load # "stay") =>
        LET rows == files[OUTPUT_CSV].rows
            S == KeyRows(rows, case_index, current_landmark_idx)
            W == WellFormedKeyRows(rows, case_index, current_landmark_idx)
        IN  /\ (S # {} /\ LastOf(S) \in W) =>
                    box_3d = DecodeRow(rows[LastOf(S)]) /\ last.load = "loaded"
            /\ S = {} => box_3d = None
            /\ box_3d # None =>
                    /\ S # {}
                    /\ Parsable(rows[LastOf(S)][9], 4)
                    /\ Parsable(rows[LastOf(S)][10], 2)
                    /\ box_3d = DecodeRow(rows[LastOf(S)])
            /\ is_submitted <=> last.load = "loaded"
            /\ is_submitted <=> box_3d # None

\* From the first landmark of the second case, where a box had been
\* loaded, the next landmark was entered, for which the log has no record:
\* there is no box.
C17_Witness ==
    /\ last.op = "next_landmark" /\ last.load = "cleared"
    /\ case_index = 1 /\ current_landmark_idx = 1
    /\ files[OUTPUT_CSV].rows = LogMalformed
    /\ box_3d = None /\ ~is_submitted

\* C18: every landmark visit has appended exactly one statistics row by
\* the time it is left; so a step that leaves the case or the landmark
\* while the statistics log is still empty (and writable) appends the one
\* row of the session's first visit.
C18_OneRowPerVisit ==
    [][ ( /\ case_index' # case_index \/ current_landmark_idx' # current_landmark_idx
          /\ files[SessionLog].rows = <<>>
          /\ last'.stats # "failed" ) =>
            Len(files'[SessionLog].rows) = 1 ]_vars

\* C19: a write denied during the silent save of a navigation handler
\* shows no error and does not hold the navigation back: the landmark
\* handlers move to the neighbouring landmark, the case handlers to the
\* neighbouring case when there is one, the case search to a case unless
\* it reports "Not Found", and the new position is loaded.  A write denied
\* during an explicit submit shows the error once; the handler writes
\* nothing to the denied log or the statistics log and leaves the flag
\* unset.
C19_DeniedWrite ==
    [][ last'.outcome = "denied" =>
            /\ last'.op \in {"prev_landmark", "next_landmark"} =>
                   /\ last'.dialog = "none" /\ last'.load \in {"loaded", "cleared"}
                   /\ current_landmark_idx' # current_landmark_idx
                   /\ case_index' = case_index
            /\ last'.op = "next_case" =>
                   /\ last'.dialog = "none"
                   /\ IF case_index + 1 < Len(FileList)
                      THEN case_index' = case_index + 1
                           /\ last'.load \in {"loaded", "cleared"}
                      ELSE case_index' = case_index /\ last'.load = "stay"
            /\ last'.op = "prev_case" =>
                   /\ last'.dialog = "none"
                   /\ IF case_index > 0
                      THEN case_index' = case_index - 1
                           /\ last'.load \in {"loaded", "cleared"}
                      ELSE case_index' = case_index /\ last'.load = "stay"
            /\ last'.op = "goto_case" =>
                   /\ last'.dialog \in {"none", "info"}
                   /\ last'.dialog = "none" <=> last'.load \in {"loaded", "cleared"}
            /\ last'.op = "submit" =>
                   /\ last'.dialog = "error"
                   /\ \A k \in 1..Len(Targets) :
                          last'.res[k] \in {"Denied", "None"} =>
                              files'[Targets[k]] = files[Targets[k]]
                   /\ files'[SessionLog] = files[SessionLog]
                   /\ ~is_submitted' ]_vars

\* Leaving the second case for the first with an unsaved box while the
\* primary log was locked: no error shown, the first case is loaded.
C19_Witness ==
    /\ last.op = "prev_case" /\ last.outcome = "denied"
    /\ last.dialog = "none" /\ last.load \in {"loaded", "cleared"}
    /\ case_index = 0

\* C20: changing the intensity threshold leaves the box, the submitted
\* flag, the case and landmark indices and every log as they were; with a
\* box the MPR views show its slices again (the slice indices derived from
\* the unchanged box are the same), without one they are cleared.
C20_ScaleChangeFrame ==
    [][ last'.op = "scale" =>
            /\ box_3d' = box_3d
            /\ is_submitted' = is_submitted
            /\ case_index' = case_index
            /\ current_landmark_idx' = current_landmark_idx
            /\ files' = files
            /\ current_slices' = current_slices
            /\ IF box_3d # None THEN mpr' = current_slices' ELSE mpr' = None ]_vars

\* The threshold was changed to the hard-bone window over a saved box.
C20_Witness ==
    /\ last.op = "scale" /\ hu_scale = "Bone (Hard)"
    /\ box_3d # None /\ is_submitted /\ mpr = current_slices

---------------------------------------------------------------------------
(* Properties of the slices, the records and the logs *)

\* The slice index r shown for an axis of n slices when the two bounds of
\* the box on that axis sum to s ticks: the whole part of the centre s/2
\* when that lies in 0..n-1, else the nearer end of the range.
SliceIndexOk(s, n, r) ==
    /\ r \in 0..(n - 1)
    /\ s < 0 => r = 0
    /\ s >= 2 * Vox(n) => r = n - 1
    /\ (s >= 0 /\ s < 2 * Vox(n)) => (2 * Vox(r) <= s /\ s < 2 * Vox(r + 1))

\* C21: for every box, also one whose centre lies below 0 or beyond the
\* last slice of an axis, the slice indices <<iz, iy, ix>> are the
\* truncated centre coordinates clamped to [0, axis length - 1], so each
\* lookup is in range.
C21_SlicesClamped ==
    box_3d # None =>
        /\ SliceIndexOk(box_3d[5] + box_3d[6], Shape(case_index)[3], current_slices[1])
        /\ SliceIndexOk(box_3d[3] + box_3d[4], Shape(case_index)[2], current_slices[2])
        /\ SliceIndexOk(box_3d[1] + box_3d[2], Shape(case_index)[1], current_slices[3])
        /\ mpr = current_slices

\* The box loaded lies left of the volume on X (centre -2) and reaches far
\* above it on Z (centre 4, three slices): the slices shown are the first
\* on X and the last on Z.
C21_Witness ==
    /\ box_3d = LegacyBox(6)
    /\ current_slices = <<2, 0, 0>>
    /\ last.op = "prev_landmark" /\ last.load = "loaded"

\* C22: while there is no box the three MPR views are blank: no slice is
\* shown, not the volume centre's either; so it is at the start, after a
\* landmark change that finds no record, and after a threshold change.
C22_NoBoxNoSlices ==
    box_3d = None => mpr = None

\* The threshold was changed after a landmark change had discarded the
\* box: the MPR views, which had shown slices, are blank.
C22_Witness ==
    /\ last.op = "scale" /\ hu_scale = "Bone (Soft)"
    /\ box_3d = None /\ mpr = None /\ rs_mpr

\* Text tok is the six-decimal text of the value v/d (v, d in ticks).
TextOf(tok, v, d) ==
    /\ tok # Garbage
    /\ Abs(d * ParseFloat(tok) - v) * 2 <= d * Sub

\* C23: every record a save appends to an annotation log encodes the box
\* of that moment: AP_Box is (x1, x2, z1, z2) and Lat_Box is
\* (y1, y2, z1, z2), each number written to six decimals, the centre
\* fields are the three midpoints, and the Z texts of the two encodings
\* are the same.
C23_RecordEncodesBox ==
    [][ \A k \in 1..Len(Targets) :
            LET old == files[Targets[k]].rows
                new == files'[Targets[k]].rows
            IN  \A i \in (Len(old) + 1)..Len(new) :
                    (i = 1 /\ new[i] = HeaderRow) \/
                    LET r == new[i]
                    IN  /\ box_3d # None /\ Len(r) = 10
                        /\ Len(r[9]) = 4 /\ Len(r[10]) = 4
                        /\ TextOf(r[9][1], box_3d[1], 1) /\ TextOf(r[9][2], box_3d[2], 1)
                        /\ TextOf(r[9][3], box_3d[5], 1) /\ TextOf(r[9][4], box_3d[6], 1)
                        /\ TextOf(r[10][1], box_3d[3], 1) /\ TextOf(r[10][2], box_3d[4], 1)
                        /\ TextOf(r[10][3], box_3d[5], 1) /\ TextOf(r[10][4], box_3d[6], 1)
                        /\ TextOf(r[6], box_3d[1] + box_3d[2], 2)
                        /\ TextOf(r[7], box_3d[3] + box_3d[4], 2)
                        /\ TextOf(r[8], box_3d[5] + box_3d[6], 2)
                        /\ r[9][3] = r[10][3] /\ r[9][4] = r[10][4] ]_vars

\* A save wrote to both logs the record of a box that a scroll had moved
\* up by one slice; the primary log's last record carries Z 1.5..2.5 in
\* both encodings.
C23_Witness ==
    /\ last.res = <<"Written", "Written">>
    /\ LET rows == files[OUTPUT_CSV].rows
           r == rows[Len(rows)]
       IN  /\ ParseFloat(r[9][3]) = Unit + Unit \div 2
           /\ ParseFloat(r[10][3]) = Unit + Unit \div 2
           /\ ParseFloat(r[10][4]) = 2 * Unit + Unit \div 2

\* C27: a box just loaded from the store has x1 <= x2, y1 <= y2 and
\* z1 <= z2, whatever the order in which the record stores its pairs.
C27_LoadedBoxOrdered ==
    last.load = "loaded" =>
        /\ box_3d[1] <= box_3d[2]
        /\ box_3d[3] <= box_3d[4]
        /\ box_3d[5] <= box_3d[6]

VoxelsOf(volume) ==
    {volume[x][y][z] : x \in 1..Len(volume), y \in 1..Len(volume[1]),
                       z \in 1..Len(volume[1][1])}
VolumeMin(volume) == CHOOSE m \in VoxelsOf(volume) : \A v \in VoxelsOf(volume) : m <= v

\* C24: in the volume the projections are averaged from, every voxel below
\* the selected threshold holds the minimum of the loaded volume and every
\* other voxel holds its loaded value.
C24_BelowThresholdBecomesMinimum ==
    \A x \in 1..Len(raw_data) : \A y \in 1..Len(raw_data[x]) :
        \A z \in 1..Len(raw_data[x][y]) :
            data[x][y][z] = IF raw_data[x][y][z] < HU_SCALES[hu_scale]
                            THEN VolumeMin(raw_data)
                            ELSE raw_data[x][y][z]

RemoveAxis(shape, axis) ==
    IF axis = 0 THEN <<shape[2], shape[3]>>
    ELSE IF axis = 1 THEN <<shape[1], shape[3]>>
    ELSE <<shape[1], shape[2]>>

\* C25: the projection of a volume along an axis is a 2D array of means
\* whose shape is the volume's shape without the collapsed axis.
C25_AipShape ==
    aip_ap # None =>
        LET shape == RemoveAxis(ShapeOf(raw_data), aip_ap.axis)
            img == aip_ap.img
        IN  /\ Len(img) = shape[1]
            /\ \A i \in 1..Len(img) :
                  /\ Len(img[i]) = shape[2]
                  /\ \A j \in 1..Len(img[i]) :
                        img[i][j].n = ShapeOf(raw_data)[aip_ap.axis + 1]

\* A volume of shape (1, 2, 3) projected along axis 1 gave a 1 x 3 array.
C25_Witness ==
    /\ aip_ap # None
    /\ aip_ap.axis = 1
    /\ ShapeOf(raw_data) = <<1, 2, 3>>
    /\ Len(aip_ap.img) = 1
    /\ Len(aip_ap.img[1]) = 3

\* The amount an accepted scroll over view adds to scalar i of the box.
ScrollDelta(view, i, d) ==
    IF \/ view = "Axial" /\ i \in {5, 6}
       \/ view = "Coronal" /\ i \in {3, 4}
       \/ view = "Sagittal" /\ i \in {1, 2}
    THEN d ELSE 0

\* C26: an accepted scroll adds the step to z1 and z2 on the Axial view,
\* to y1 and y2 on the Coronal view, to x1 and x2 on the Sagittal view,
\* and leaves the other four scalars and every extent as they were; a
\* scroll over the AP or Lateral view, or without a box, changes nothing.
C26_ScrollFrame ==
    [][ (last'.op = "scroll" /\ last'.outcome # "refused") =>
            IF last'.outcome = "shifted"
            THEN /\ box_3d # None
                 /\ last'.view \in MprViews
                 /\ \A i \in 1..6 :
                       box_3d'[i] = box_3d[i] + ScrollDelta(last'.view, i, last'.step * Unit)
                 /\ \A a \in 1..3 :
                       box_3d'[2 * a] - box_3d'[2 * a - 1] = box_3d[2 * a] - box_3d[2 * a - 1]
            ELSE /\ box_3d = None \/ last'.view \in Views \ MprViews
                 /\ UNCHANGED <<case_index, current_landmark_idx, box_3d, is_submitted,
                                current_slices, mpr, rs_mpr, hu_scale, raw_data, data,
                                stat_clicks, stat_help_count, files, resident_name>> ]_vars

\* A downward scroll over the Coronal view moved a box whose Y range was
\* above the first slice; its X and Z ranges are those of the drags.
C26_Witness ==
    /\ last.op = "scroll" /\ last.view = "Coronal" /\ last.outcome = "shifted"
    /\ last.step = -1
    /\ box_3d[3] = 1 /\ box_3d[4] = Unit \div 2
    /\ box_3d[1] = 0 /\ box_3d[5] = Unit + 1

\* Positions i < j of a log hold records of one key that follow each other
\* in that key's order of appearance.
AdjacentForKey(rows, ci, li, i, j) ==
    /\ i \in KeyRows(rows, ci, li)
    /\ j \in KeyRows(rows, ci, li)
    /\ i < j
    /\ \A k \in KeyRows(rows, ci, li) : ~(i < k /\ k < j)

\* C28: no annotation log holds two records of one key, adjacent in that
\* key's order of appearance, whose centre fields and two box encodings
\* are identical.
C28_NoAdjacentDuplicates ==
    \A f \in {OUTPUT_CSV, UserCsv} :
        \A ci \in 0..(Len(FileList) - 1), li \in 0..(Len(LANDMARKS) - 1) :
            LET rows == files[f].rows
            IN  \A i \in 1..Len(rows), j \in 1..Len(rows) :
                    AdjacentForKey(rows, ci, li, i, j) =>
                        SubSeq(rows[i], 6, 10) # SubSeq(rows[j], 6, 10)

\* The retry of a save whose write to the resident's log had been denied:
\* the primary log, which already held the record after an earlier one of
\* the same key, was skipped, and the resident's log received it.
C28_Witness ==
    /\ last.op = "submit" /\ last.res = <<"Duplicate", "Written">>
    /\ \E i \in 2..Len(files[OUTPUT_CSV].rows) :
          AdjacentForKey(files[OUTPUT_CSV].rows, case_index, current_landmark_idx,
                         i, Len(files[OUTPUT_CSV].rows))
    /\ files[UserCsv].rows = files[OUTPUT_CSV].rows

\* The rows of a log, header excluded, that carry resident name.
RecordsOf(rows, name) ==
    SelectSeq(rows, LAMBDA r : r # HeaderRow /\ Len(r) >= 3 /\ r[3] = name)
AllRecords(rows) == SelectSeq(rows, LAMBDA r : r # HeaderRow)

\* C29: with both logs empty at the start and no write denied, the log of
\* the resident holds exactly the records the shared log holds for that
\* resident, in the same order.
C29_UserLogMirrorsShared ==
    AllRecords(files[UserCsv].rows) = RecordsOf(files[OUTPUT_CSV].rows, Resident)

\* C30: a navigation that leaves a landmark whose box was just loaded
\* appends nothing to the primary log.
C30_RevisitAppendsNothing ==
    [][ (last.load = "loaded" /\ last'.op \in NavOps \cup {"landmark_select"}) =>
            files'[OUTPUT_CSV] = files[OUTPUT_CSV] ]_vars

---------------------------------------------------------------------------
(* Properties of the counters, the indices and the two-view prototype *)

\* The sum of field k over the rows of a statistics log.
RECURSIVE SumField(_, _)
SumField(rows, k) ==
    IF rows = <<>> THEN 0 ELSE Head(rows)[k] + SumField(Tail(rows), k)

\* Clicks and help invocations accounted for: those in the rows of the
\* statistics log plus those still in the counters.
ClicksHeld == SumField(files[SessionLog].rows, 3) + stat_clicks
HelpHeld == SumField(files[SessionLog].rows, 4) + stat_help_count

\* C31: usage counts are conserved.  The clicks in the statistics rows plus
\* the click counter start at 0, grow by one with each click inside a view
\* and are changed by no other event, a failed statistics write included;
\* likewise the help invocations.  Hence at every moment they equal the
\* number of clicks (help invocations) made so far.
C31_CountsConserved ==
    /\ [](last.op = "init" => ClicksHeld = 0 /\ HelpHeld = 0)
    /\ [][ /\ ClicksHeld' = ClicksHeld + (IF last'.op = "click" THEN 1 ELSE 0)
           /\ HelpHeld' = HelpHeld + (IF last'.op = "help" THEN 1 ELSE 0) ]_vars

\* An explicit save whose statistics write failed left the click made
\* before it in the counter, with no row written.
C31_Witness ==
    /\ last.op = "submit" /\ last.outcome = "saved" /\ last.stats = "failed"
    /\ stat_clicks = 1
    /\ files[SessionLog].rows = <<>>

\* C32: the case index stays in [0, number of cases) and the landmark
\* index in [0, number of landmarks); next_case at the last case and
\* prev_case at the first leave the case index, the box and the landmark
\* index as they were; next_landmark after the last landmark goes to the
\* first and prev_landmark before the first goes to the last.
C32_IndicesInRange ==
    /\ [](/\ case_index \in 0..(Len(FileList) - 1)
          /\ current_landmark_idx \in 0..(Len(LANDMARKS) - 1))
    /\ [][ /\ (\/ last'.op = "next_case" /\ case_index = Len(FileList) - 1
               \/ last'.op = "prev_case" /\ case_index = 0) =>
                  /\ case_index' = case_index
                  /\ box_3d' = box_3d
                  /\ current_landmark_idx' = current_landmark_idx
           /\ last'.op = "next_landmark" =>
                  current_landmark_idx' =
                      IF current_landmark_idx = Len(LANDMARKS) - 1 THEN 0
                      ELSE current_landmark_idx + 1
           /\ last'.op = "prev_landmark" =>
                  current_landmark_idx' =
                      IF current_landmark_idx = 0 THEN Len(LANDMARKS) - 1
                      ELSE current_landmark_idx - 1 ]_vars

\* Next case was pressed at the last case with a drawn box on the second
\* landmark: the box was saved and the view stayed where it was.
C32_Witness ==
    /\ last.op = "next_case" /\ last.load = "stay" /\ last.outcome = "saved"
    /\ case_index = Len(FileList) - 1
    /\ current_landmark_idx = Len(LANDMARKS) - 1
    /\ box_3d # None

\* Both selections exist and their Z ranges overlap with positive length.
ZOverlap ==
    /\ sel_ap # None
    /\ sel_lat # None
    /\ Max2(sel_ap[3], sel_lat[3]) < Min2(sel_ap[4], sel_lat[4])

\* C33 (as stated): confirm makes a box exactly when both selections exist
\* and their Z ranges overlap with positive length, and the box's Z range
\* is then the intersection of the two Z ranges.
C33_ConfirmIntersection ==
    last.op = "confirm" =>
        IF ZOverlap
        THEN /\ bbox_3d # None
             /\ bbox_3d.z[1] * Unit = Max2(sel_ap[3], sel_lat[3])
             /\ bbox_3d.z[2] * Unit = Min2(sel_ap[4], sel_lat[4])
        ELSE bbox_3d = None

\* C33: confirm makes a box exactly when both selections exist and their
\* Z ranges overlap with positive length; the box's Z range is then the
\* intersection of the two Z ranges with each end truncated toward zero to
\* a whole voxel (less than one voxel away from the intersection's end).
C33_ConfirmTruncatedIntersection ==
    last.op = "confirm" =>
        IF ZOverlap
        THEN /\ bbox_3d # None
             /\ bbox_3d.z[1] = Trunc(Max2(sel_ap[3], sel_lat[3]), Unit)
             /\ bbox_3d.z[2] = Trunc(Min2(sel_ap[4], sel_lat[4]), Unit)
             /\ Abs(bbox_3d.z[1] * Unit - Max2(sel_ap[3], sel_lat[3])) < Unit
             /\ Abs(bbox_3d.z[2] * Unit - Min2(sel_ap[4], sel_lat[4])) < Unit
        ELSE bbox_3d = None

\* Confirm made a box from an AP selection over Z 0.25..2.25 and a Lateral
\* selection over Z -0.5..1.5: the intersection 0.25..1.5 became 0..1.
C33_Witness ==
    /\ last.op = "confirm" /\ last.outcome = "box"
    /\ sel_ap[3] = Unit \div 4 /\ sel_ap[4] = 2 * Unit + Unit \div 4
    /\ sel_lat[3] = -(Unit \div 2) /\ sel_lat[4] = Unit + Unit \div 2
    /\ bbox_3d.z = <<0, 1>>

=============================================================================
